---- MODULE Spec2Model ----
(***************************************************************************)
(* Model of gadgeteer/kale: the pipeline-step code-generation template     *)
(* (a Jinja2 template rendered with default whitespace settings) and the   *)
(* candy-bag tutorial notebook whose tagged cells it wraps; the training   *)
(* and prediction cells of the GP regression example notebook; the         *)
(* correlation cell of the luminol example notebook.                       *)
(*                                                                         *)
(* A text is a non-empty sequence of strings: the text split at its line   *)
(* breaks.  The rendered function is "\n".join(out).                       *)
(***************************************************************************)
EXTENDS Integers, Sequences, FiniteSets, TLC

\* The template rendering: its inputs, its output, its progress.
VARIABLES ctx, out, pc

\* The pipeline of the tutorial notebook: the run parameter CANDIES, and per
\* step its state, the part of the generated function it is in (stepPhase),
\* the next cell to run, the variables whose load or save statement the
\* current loading or saving block has run (blockDone), the error that ended
\* it, the names
\* its kernel defines and the values of its variables; the marshal volume
\* (saved names and their values); the order in which steps were started.
VARIABLES candies, stepState, stepPhase, stepPos, blockDone, stepError,
          defined, value, saved, store, startLog

templateVars == <<ctx, out, pc>>

notebookVars ==
    <<candies, stepState, stepPhase, stepPos, blockDone, stepError, defined,
      value, saved, store, startLog>>

\* The GP regression notebook: the statement about to run, whether CI is in
\* the environment, the cell's variables smoke_test, training_iter and i
\* (iter), the iteration numbers printed, the statements the current
\* iteration has run, the state of the parameter gradients, the number of
\* optimizer steps taken, and the modes of model and likelihood.
VARIABLES gpPc, ciPresent, smoke_test, training_iter, iter, printed, ops,
          grads, optimizerSteps, modelMode, likelihoodMode

\* The luminol notebook: the statement about to run, the list get_anomalies
\* returned, the position of the loop in it, the cell's variable
\* time_period, the windows of the correlators built, what is_correlated
\* answered for each, and the lines printed.
VARIABLES lumPc, anomalies, anomalyIndex, time_period, correlators, results,
          stdout

gpVars ==
    <<gpPc, ciPresent, smoke_test, training_iter, iter, printed, ops, grads,
      optimizerSteps, modelMode, likelihoodMode>>

lumVars ==
    <<lumPc, anomalies, anomalyIndex, time_period, correlators, results, stdout>>

vars == <<templateVars, notebookVars, gpVars, lumVars>>

\* ------------------------------------------------------------------ bounds
MaxParams == 2
MaxVars == 2
MaxBlocks == 2
MaxCandies == 3
MaxAnomalies == 2

\* ------------------------------------------------------------- text algebra
\* String concatenation of two texts: the last line of a continues with the
\* first line of b.
Cat(a, b) == SubSeq(a, 1, Len(a) - 1) \o <<a[Len(a)] \o b[1]>> \o Tail(b)

RECURSIVE CatAll(_)
CatAll(ts) == IF ts = <<>> THEN <<"">> ELSE Cat(Head(ts), CatAll(Tail(ts)))

StartsWith(s, p) == Len(s) >= Len(p) /\ SubSeq(s, 1, Len(p)) = p

EndsWith(s, p) == Len(s) >= Len(p) /\ SubSeq(s, Len(s) - Len(p) + 1, Len(s)) = p

\* The empty text, emitted by a false {% if %} or an empty {% for %}.
Nothing == <<"">>

\* Jinja2's join filter.
RECURSIVE join(_, _)
join(xs, sep) ==
    IF xs = <<>> THEN ""
    ELSE IF Len(xs) = 1 THEN xs[1]
    ELSE xs[1] \o sep \o join(Tail(xs), sep)

\* Jinja2's indent(4, True) filter: the first line is always indented, a
\* later line only when it is not empty.
indent(block) ==
    [i \in 1..Len(block) |->
        IF i = 1 \/ block[i] # "" THEN "    " \o block[i] ELSE block[i]]

\* --------------------------------------------------------- template guards
\* line 6 without its `not autosnapshot`
IsEmptyStep_IgnoresAutosnapshot(c) ==
    /\ Len(c.in_variables) = 0
    /\ Len(c.out_variables) = 0
    /\ Len(c.function_body) = 0

\* line 6: not autosnapshot and no in/out variables and no function body
IsEmptyStep(c) ==
    /\ ~c.autosnapshot
    /\ Len(c.in_variables) = 0
    /\ Len(c.out_variables) = 0
    /\ Len(c.function_body) = 0

\* line 15
NeedsInitMetadata(c) ==
    \/ c.autosnapshot
    \/ Len(c.in_variables) > 0
    \/ Len(c.out_variables) > 0
    \/ Len(c.function_body) > 0

\* line 87 with the run section's guard (line 58) in place of its own
NeedsMarkComplete_RunGuard(c) ==
    \/ Len(c.in_variables) > 0
    \/ Len(c.out_variables) > 0
    \/ Len(c.function_body) > 0

\* line 87
NeedsMarkComplete(c) ==
    \/ c.autosnapshot
    \/ Len(c.in_variables) > 0
    \/ Len(c.out_variables) > 0
    \/ Len(c.function_body) > 0

\* line 19 without the test of step_name
SnapshotsBefore_AnyStep(c) == c.autosnapshot

\* line 19
SnapshotsBefore(c) == c.autosnapshot /\ c.step_name # "final_auto_snapshot"

\* line 58 with the metadata guard (line 15) in place of its own
HasRunSection_MetadataGuard(c) ==
    \/ c.autosnapshot
    \/ Len(c.in_variables) > 0
    \/ Len(c.out_variables) > 0
    \/ Len(c.function_body) > 0

\* line 58
HasRunSection(c) ==
    \/ Len(c.in_variables) > 0
    \/ Len(c.out_variables) > 0
    \/ Len(c.function_body) > 0

\* ------------------------------------------------------- template sections
\* lines 1-5: def name(a: t,b: u):
SignatureArg(c, i) == c.parameters_names[i] \o ": " \o c.parameters_types[i]

\* lines 1-5 with `loop.index <= length`: a comma after every parameter
Signature_TrailingComma(c) ==
    << "def " \o c.step_name \o "("
       \o join([i \in 1..Len(c.parameters_names) |-> SignatureArg(c, i) \o ","], "")
       \o "):" >>

Signature(c) ==
    << "def " \o c.step_name \o "("
       \o join([i \in 1..Len(c.parameters_names) |-> SignatureArg(c, i)], ",")
       \o "):" >>

\* line 11 without the test of the type: never quoted
ParameterAssignment_Unquoted(c, i) == c.parameters_names[i] \o " = {}"

\* line 11: one assignment of the parameters block
ParameterAssignment(c, i) ==
    IF c.parameters_types[i] = "str"
    THEN c.parameters_names[i] \o " = \"{}\""
    ELSE c.parameters_names[i] \o " = {}"

\* lines 6-14: pass, or the pipeline-parameters block, or nothing
PassOrParameters(c) ==
    IF IsEmptyStep(c) THEN << "", "    pass" >>
    ELSE IF Len(c.parameters_names) > 0 THEN
        << "", "    _kale_pipeline_parameters_block = '''" >>
        \o [i \in 1..Len(c.parameters_names) |->
               "    " \o ParameterAssignment(c, i)]
        \o << "    '''.format(" \o join(c.parameters_names, ", ") \o ")", "" >>
    ELSE Nothing

\* lines 15-18 (with the line break that follows the endif)
InitMetadata(c) ==
    Cat(IF NeedsInitMetadata(c) THEN
            << "",
               "    from kale.common import mlmdutils as _kale_mlmdutils",
               "    _kale_mlmdutils.init_metadata()",
               "" >>
        ELSE Nothing,
        << "", "" >>)

\* lines 19-27
SnapshotBefore(c) ==
    IF SnapshotsBefore(c) THEN
        << "",
           "    from kale.common import podutils as _kale_podutils",
           "    _kale_mlmdutils.call(\"link_input_rok_artifacts\")",
           "    _kale_podutils.snapshot_pipeline_step(",
           "        \"" \o c.pipeline_name \o "\",",
           "        \"" \o c.step_name \o "\",",
           "        \"" \o c.nb_path \o "\",",
           "        before=True)",
           "" >>
    ELSE Nothing

\* lines 29-39 loading every variable under the name of the first
DataLoadingBlock_FirstName(c) ==
    IF Len(c.in_variables) > 0 THEN
        << "",
           "    _kale_data_loading_block = '''",
           "    # -----------------------DATA LOADING START--------------------------------",
           "    from kale.marshal import utils as _kale_marshal_utils",
           "    _kale_marshal_utils.set_kale_data_directory(\"" \o c.marshal_path \o "\")" >>
        \o [i \in 1..Len(c.in_variables) |->
               "    " \o c.in_variables[i] \o " = _kale_marshal_utils.load(\""
               \o c.in_variables[1] \o "\")"]
        \o << "    # -----------------------DATA LOADING END----------------------------------",
              "    '''",
              "" >>
    ELSE Nothing

\* lines 29-39
DataLoadingBlock(c) ==
    IF Len(c.in_variables) > 0 THEN
        << "",
           "    _kale_data_loading_block = '''",
           "    # -----------------------DATA LOADING START--------------------------------",
           "    from kale.marshal import utils as _kale_marshal_utils",
           "    _kale_marshal_utils.set_kale_data_directory(\"" \o c.marshal_path \o "\")" >>
        \o [i \in 1..Len(c.in_variables) |->
               "    " \o c.in_variables[i] \o " = _kale_marshal_utils.load(\""
               \o c.in_variables[i] \o "\")"]
        \o << "    # -----------------------DATA LOADING END----------------------------------",
              "    '''",
              "" >>
    ELSE Nothing

\* lines 41-45: one iteration of the loop over function_body
UserBlock(c, i) ==
    << "", "    _kale_block" \o ToString(i) \o " = '''" >>
    \o indent(c.function_body[i])
    \o << "    '''", "" >>

UserBlocks(c) ==
    CatAll([i \in 1..Len(c.function_body) |-> UserBlock(c, i)])

\* lines 46-57 (with the two line breaks that follow the endif)
DataSavingBlock(c) ==
    Cat(IF Len(c.out_variables) > 0 THEN
            << "",
               "    _kale_data_saving_block = '''",
               "    # -----------------------DATA SAVING START---------------------------------",
               "    from kale.marshal import utils as _kale_marshal_utils",
               "    _kale_marshal_utils.set_kale_data_directory(\"" \o c.marshal_path \o "\")" >>
            \o [i \in 1..Len(c.out_variables) |->
                   "    _kale_marshal_utils.save(" \o c.out_variables[i] \o ", \""
                   \o c.out_variables[i] \o "\")"]
            \o << "    # -----------------------DATA SAVING END-----------------------------------",
                  "    '''" >>
        ELSE Nothing,
        << "", "", "" >>)

\* lines 63-68 with the data-saving block listed ahead of the user blocks
KaleBlocks_SavingFirst(c) ==
    CatAll(<<
        << "    _kale_blocks = ("
           \o (IF Len(c.parameters_names) > 0
               THEN "_kale_pipeline_parameters_block," ELSE "")
           \o (IF Len(c.in_variables) > 0
               THEN "_kale_data_loading_block," ELSE "")
           \o (IF Len(c.out_variables) > 0 THEN "_kale_data_saving_block," ELSE "") >>,
        CatAll([i \in 1..Len(c.function_body) |->
                   << "", "                    _kale_block" \o ToString(i) \o "," >>]),
        << "", "                    )" >> >>)

\* lines 63-68: the tuple of blocks handed to run_code
KaleBlocks(c) ==
    CatAll(<<
        << "    _kale_blocks = ("
           \o (IF Len(c.parameters_names) > 0
               THEN "_kale_pipeline_parameters_block," ELSE "")
           \o (IF Len(c.in_variables) > 0
               THEN "_kale_data_loading_block," ELSE "") >>,
        CatAll([i \in 1..Len(c.function_body) |->
                   << "", "                    _kale_block" \o ToString(i) \o "," >>]),
        << "",
           "                    "
           \o (IF Len(c.out_variables) > 0 THEN "_kale_data_saving_block" ELSE "")
           \o ")" >> >>)

\* lines 58-73 writing the html artifact under marshal_path
RunSection_UnderMarshalPath(c) ==
    IF HasRunSection(c) THEN
        << "",
           "    # run the code blocks inside a jupyter kernel",
           "    from kale.common.jputils import run_code as _kale_run_code",
           "    from kale.common.kfputils import \\",
           "        update_uimetadata as _kale_update_uimetadata" >>
        \o KaleBlocks(c)
        \o << "    _kale_html_artifact = _kale_run_code(_kale_blocks)",
              "    with open(\"" \o c.marshal_path \o "/" \o c.step_name \o ".html\", \"w\") as f:",
              "        f.write(_kale_html_artifact)",
              "    _kale_update_uimetadata('" \o c.step_name \o "')",
              "" >>
    ELSE Nothing

\* lines 58-73
RunSection(c) ==
    IF HasRunSection(c) THEN
        << "",
           "    # run the code blocks inside a jupyter kernel",
           "    from kale.common.jputils import run_code as _kale_run_code",
           "    from kale.common.kfputils import \\",
           "        update_uimetadata as _kale_update_uimetadata" >>
        \o KaleBlocks(c)
        \o << "    _kale_html_artifact = _kale_run_code(_kale_blocks)",
              "    with open(\"/" \o c.step_name \o ".html\", \"w\") as f:",
              "        f.write(_kale_html_artifact)",
              "    _kale_update_uimetadata('" \o c.step_name \o "')",
              "" >>
    ELSE Nothing

\* lines 75-86 without the test of step_name on line 76
SnapshotAfter_AlwaysLinks(c) ==
    IF c.autosnapshot THEN
        << "",
           "    from kale.common import podutils as _kale_podutils",
           "    _kale_mlmdutils.call(\"link_input_rok_artifacts\")" >>
        \o << "    _rok_snapshot_task = _kale_podutils.snapshot_pipeline_step(",
              "        \"" \o c.pipeline_name \o "\",",
              "        \"" \o c.step_name \o "\",",
              "        \"" \o c.nb_path \o "\",",
              "        before=False)",
              "    _kale_mlmdutils.call(\"submit_output_rok_artifact\", _rok_snapshot_task)",
              "" >>
    ELSE Nothing

\* lines 75-86
SnapshotAfter(c) ==
    IF c.autosnapshot THEN
        (IF c.step_name = "final_auto_snapshot" THEN
            << "",
               "    from kale.common import podutils as _kale_podutils",
               "    _kale_mlmdutils.call(\"link_input_rok_artifacts\")" >>
         ELSE << "" >>)
        \o << "    _rok_snapshot_task = _kale_podutils.snapshot_pipeline_step(",
              "        \"" \o c.pipeline_name \o "\",",
              "        \"" \o c.step_name \o "\",",
              "        \"" \o c.nb_path \o "\",",
              "        before=False)",
              "    _kale_mlmdutils.call(\"submit_output_rok_artifact\", _rok_snapshot_task)",
              "" >>
    ELSE Nothing

\* lines 87-90 (with the line break that ends the template)
MarkComplete(c) ==
    Cat(IF NeedsMarkComplete(c) THEN
            << "", "    _kale_mlmdutils.call(\"mark_execution_complete\")" >>
        ELSE Nothing,
        << "", "" >>)

\* The whole template, top to bottom.
RenderTemplate(c) ==
    CatAll(<< Signature(c), PassOrParameters(c), InitMetadata(c),
              SnapshotBefore(c), DataLoadingBlock(c), UserBlocks(c),
              DataSavingBlock(c), RunSection(c), SnapshotAfter(c),
              MarkComplete(c) >>)

\* ---------------------------------------------------------- template inputs
RECURSIVE SeqsUpTo(_, _)
\* The sequences over S of length at most n.
SeqsUpTo(S, n) ==
    IF n = 0 THEN { <<>> }
    ELSE SeqsUpTo(S, n - 1) \cup [1..n -> S]

\* The sequences without repetition over S of length at most n.
InjSeqs(S, n) ==
    { s \in SeqsUpTo(S, n) : \A i, j \in 1..Len(s) : i # j => s[i] # s[j] }

StepNames == { "kid1", "final_auto_snapshot" }

\* Pipeline parameters as (name, type) pairs.
Parameters == { <<"CANDIES", "int">>, <<"label", "str">> }

VariableNames == { "kid1", "kid2" }

\* Code cells: the text of a tagged notebook cell.
CodeBlocks ==
    { << "pass" >>,
      << "kid3 = get_handful(\"Paul\", CANDIES - kid1 - kid2)",
         "",
         "print(CANDIES - kid1 - kid2 - kid3)" >> }

PipelineNames == { "candybag" }
NotebookPaths == { "/home/jovyan/candies.ipynb" }
MarshalPaths == { "/marshal", "/data" }

Contexts ==
    { [ step_name        |-> s,
        parameters_names |-> [i \in 1..Len(ps) |-> ps[i][1]],
        parameters_types |-> [i \in 1..Len(ps) |-> ps[i][2]],
        autosnapshot     |-> a,
        in_variables     |-> iv,
        out_variables    |-> ov,
        function_body    |-> fb,
        pipeline_name    |-> pn,
        nb_path          |-> np,
        marshal_path     |-> mp ] :
      s \in StepNames, ps \in InjSeqs(Parameters, MaxParams), a \in BOOLEAN,
      iv \in InjSeqs(VariableNames, MaxVars),
      ov \in InjSeqs(VariableNames, MaxVars),
      fb \in SeqsUpTo(CodeBlocks, MaxBlocks),
      pn \in PipelineNames, np \in NotebookPaths, mp \in MarshalPaths }

\* ------------------------------------------- the candy-bag tutorial notebook
\* The functions cell with its tag left out
FunctionsCell_Untagged ==
    [ tags   |-> <<>>,
      source |-> << "def get_handful(kidname, left):",
                    "    if left == 0:",
                    "        print(\"{0} Got no candy!\".format(kidname))",
                    "        return 0",
                    "    c = random.randint(1, left)",
                    "    print(\"{0} got {1} candies!\".format(kidname, c))",
                    "    return c" >>,
      reads  |-> {}, binds |-> { "get_handful" }, taken |-> <<>> ]

\* The cell tagged functions (lines 96-114)
FunctionsCell ==
    [ tags   |-> << "functions" >>,
      source |-> << "def get_handful(kidname, left):",
                    "    if left == 0:",
                    "        print(\"{0} Got no candy!\".format(kidname))",
                    "        return 0",
                    "    c = random.randint(1, left)",
                    "    print(\"{0} got {1} candies!\".format(kidname, c))",
                    "    return c" >>,
      reads  |-> {}, binds |-> { "get_handful" }, taken |-> <<>> ]

\* The code cells of the notebook, top to bottom, with their tags and source.
\* reads: the names the cell's own statements look up when it runs; binds:
\* the names it defines; taken: the variables a get_handful call subtracts
\* from CANDIES.
NotebookCells ==
    << [ tags   |-> << "imports" >>,
         source |-> << "import random" >>,
         reads  |-> {}, binds |-> { "random" }, taken |-> <<>> ],
       [ tags   |-> << "pipeline-parameters" >>,
         source |-> << "CANDIES = 37" >>,
         reads  |-> {}, binds |-> { "CANDIES" }, taken |-> <<>> ],
       FunctionsCell,
       [ tags   |-> << "block:sack" >>,
         source |-> << "print(\"Let's put %s candies in a bag and have three kids get a handful\" % CANDIES)" >>,
         reads  |-> { "CANDIES" }, binds |-> {}, taken |-> <<>> ],
       [ tags   |-> << "block:kid1", "prev:sack" >>,
         source |-> << "# kid1 gets a handful, without looking in the bad!",
                       "kid1 = get_handful(\"Jack\", CANDIES)" >>,
         reads  |-> { "get_handful", "CANDIES" },
         binds  |-> { "kid1" }, taken |-> <<>> ],
       [ tags   |-> << "block:kid2", "prev:kid1" >>,
         source |-> << "kid2 = get_handful(\"Jill\", CANDIES - kid1)" >>,
         reads  |-> { "get_handful", "CANDIES", "kid1" },
         binds  |-> { "kid2" }, taken |-> << "kid1" >> ],
       [ tags   |-> << "block:kid3", "prev:kid2" >>,
         source |-> << "kid3 = get_handful(\"Paul\", CANDIES - kid1 - kid2)",
                       "",
                       "print(\"There are {0} candies still in the sack\".format(CANDIES - kid1 - kid2 - kid3))" >>,
         reads  |-> { "get_handful", "CANDIES", "kid1", "kid2" },
         binds  |-> { "kid3" }, taken |-> << "kid1", "kid2" >> ] >>

TagsOf(cell) == { cell.tags[i] : i \in 1..Len(cell.tags) }

AllTags == UNION { TagsOf(NotebookCells[i]) : i \in 1..Len(NotebookCells) }

\* The pipeline steps: one per block:<name> tag.
Steps == { SubSeq(t, 7, Len(t)) : t \in { u \in AllTags : StartsWith(u, "block:") } }

\* The cells carrying the tag, in notebook order.
HasTag(cell, tag) == tag \in TagsOf(cell)

RECURSIVE CellsFrom(_, _)
CellsFrom(tag, i) ==
    IF i > Len(NotebookCells) THEN <<>>
    ELSE (IF HasTag(NotebookCells[i], tag) THEN << NotebookCells[i] >> ELSE <<>>)
         \o CellsFrom(tag, i + 1)

CellsTagged(tag) == CellsFrom(tag, 1)

\* The prev: tags left unread
Prev_Ignored(s) == {}

\* The steps named by the prev:<name> tags of the cells of step s.
Prev(s) ==
    { SubSeq(t, 6, Len(t)) :
        t \in { u \in UNION { TagsOf(CellsTagged("block:" \o s)[i]) :
                               i \in 1..Len(CellsTagged("block:" \o s)) } :
                StartsWith(u, "prev:") } }

\* "Code cells annotated as imports and functions will be prepended to each
\* pipeline step"
StepCode(s) ==
    CellsTagged("imports") \o CellsTagged("functions") \o CellsTagged("block:" \o s)

\* The variables the steps hand to one another through the marshal volume.
SharedVariables == { "kid1", "kid2", "kid3" }

\* get_handful drawing with randint(0, left)
get_handful_FromZero(left) == 0..left

\* The pipeline-parameters cell: CANDIES = 37, the value of a run whose
\* parameter is left as the notebook has it.
CANDIES == 37

\* get_handful(kidname, left): the values it may return.  randint(1, left)
\* raises ValueError for left < 1, so a negative left returns nothing.
get_handful(left) == IF left = 0 THEN { 0 } ELSE 1..left

RECURSIVE SumOf(_, _)
SumOf(f, names) ==
    IF names = <<>> THEN 0 ELSE f[Head(names)] + SumOf(f, Tail(names))

\* "A container will be created only after the sack step successfully
\* completes"
CanStart(s) ==
    /\ stepState[s] = "pending"
    /\ \A p \in Prev(s) : stepState[p] = "succeeded"

\* The in_variables of step s: the shared variables its cells read and do
\* not bind themselves.
InVariables(s) ==
    LET cells == CellsTagged("block:" \o s)
    IN  (UNION { cells[n].reads \ cells[n].binds : n \in 1..Len(cells) })
        \cap SharedVariables

\* The out_variables of step s: the shared variables its cells bind.
OutVariables(s) ==
    LET cells == CellsTagged("block:" \o s)
    IN  (UNION { cells[n].binds : n \in 1..Len(cells) }) \cap SharedVariables

\* _kale_blocks: the block run_code runs after the parameters block, and
\* after the last code block; the loading and the saving block exist only
\* for non-empty in_variables and out_variables.
AfterParameters(s) == IF InVariables(s) # {} THEN "loading" ELSE "code"

AfterCode(s) == IF OutVariables(s) # {} THEN "saving" ELSE "closing"

InitNotebook ==
    /\ stepState = [s \in Steps |-> "pending"]
    /\ stepPhase = [s \in Steps |-> "none"]
    /\ stepPos = [s \in Steps |-> 0]
    /\ blockDone = [s \in Steps |-> {}]
    /\ stepError = [s \in Steps |-> "none"]
    /\ defined = [s \in Steps |-> {}]
    /\ value = [s \in Steps |-> [v \in SharedVariables |-> 0]]
    /\ saved = {}
    /\ store = [v \in SharedVariables |-> 0]
    /\ startLog = <<>>

\* The container of step s is created and its generated function is called:
\* nothing is defined in its kernel yet.
StartStep(s) ==
    /\ CanStart(s)
    /\ stepState' = [stepState EXCEPT ![s] = "running"]
    /\ stepPhase' = [stepPhase EXCEPT ![s] = "metadata"]
    /\ startLog' = Append(startLog, s)
    /\ UNCHANGED <<candies, stepPos, blockDone, stepError, defined, value, saved, store>>

\* The function's calls before run_code return: init_metadata and, with
\* autosnapshot, link_input_rok_artifacts and the before=True snapshot.
InitStep(s) ==
    /\ stepState[s] = "running"
    /\ stepPhase[s] = "metadata"
    /\ stepPhase' = [stepPhase EXCEPT ![s] = "parameters"]
    /\ UNCHANGED <<candies, stepState, stepPos, blockDone, stepError, defined, value,
                   saved, store, startLog>>

\* run_code runs the pipeline-parameters block: CANDIES is defined.
RunParametersBlock(s) ==
    /\ stepState[s] = "running"
    /\ stepPhase[s] = "parameters"
    /\ defined' = [defined EXCEPT ![s] = @ \cup { "CANDIES" }]
    /\ stepPhase' = [stepPhase EXCEPT ![s] = AfterParameters(s)]
    /\ stepPos' = [stepPos EXCEPT ![s] =
                      IF AfterParameters(s) = "code" THEN 1 ELSE @]
    /\ UNCHANGED <<candies, stepState, stepError, blockDone, value, saved, store,
                   startLog>>

\* run_code runs the next statement of the data-loading block: the
\* in_variable of a load statement not run yet is loaded from the marshal volume and bound in
\* the kernel (the order of the list is the compiler's; any order is
\* allowed); the load of a variable that was not saved raises, and the
\* variables loaded before it stay bound.  After the last load the code
\* blocks follow.
LoadVariable(s) ==
    /\ stepState[s] = "running"
    /\ stepPhase[s] = "loading"
    /\ \E v \in InVariables(s) \ blockDone[s] :
           IF v \in saved
           THEN /\ defined' = [defined EXCEPT ![s] = @ \cup { v }]
                /\ value' = [value EXCEPT ![s] = [@ EXCEPT ![v] = store[v]]]
                /\ IF InVariables(s) \subseteq blockDone[s] \cup { v }
                   THEN /\ stepPhase' = [stepPhase EXCEPT ![s] = "code"]
                        /\ stepPos' = [stepPos EXCEPT ![s] = 1]
                        /\ blockDone' = [blockDone EXCEPT ![s] = {}]
                   ELSE /\ blockDone' = [blockDone EXCEPT ![s] = @ \cup { v }]
                        /\ UNCHANGED <<stepPhase, stepPos>>
                /\ UNCHANGED <<stepState, stepError>>
           ELSE /\ stepState' = [stepState EXCEPT ![s] = "failed"]
                /\ stepError' = [stepError EXCEPT ![s] = "LoadError"]
                /\ UNCHANGED <<stepPhase, stepPos, blockDone, defined, value>>
    /\ UNCHANGED <<candies, saved, store, startLog>>

\* The next cell of the step's code runs in the step's kernel; after the
\* last one run_code goes on to the saving block, or returns.
RunCell(s) ==
    /\ stepState[s] = "running"
    /\ stepPhase[s] = "code"
    /\ stepPos[s] <= Len(StepCode(s))
    /\ LET cell == StepCode(s)[stepPos[s]]
           left == candies - SumOf(value[s], cell.taken)
           calls == "get_handful" \in cell.reads
       IN  IF ~(cell.reads \subseteq defined[s])
              \/ (calls /\ left # 0 /\ "random" \notin defined[s])
           THEN /\ stepState' = [stepState EXCEPT ![s] = "failed"]
                /\ stepError' = [stepError EXCEPT ![s] = "NameError"]
                /\ UNCHANGED <<stepPhase, stepPos, blockDone, defined, value>>
           ELSE IF calls /\ get_handful(left) = {}
           THEN /\ stepState' = [stepState EXCEPT ![s] = "failed"]
                /\ stepError' = [stepError EXCEPT ![s] = "ValueError"]
                /\ UNCHANGED <<stepPhase, stepPos, blockDone, defined, value>>
           ELSE /\ stepPos' = [stepPos EXCEPT ![s] = @ + 1]
                /\ UNCHANGED blockDone
                /\ stepPhase' = [stepPhase EXCEPT ![s] =
                                    IF stepPos[s] = Len(StepCode(s))
                                    THEN AfterCode(s) ELSE @]
                /\ defined' = [defined EXCEPT ![s] = @ \cup cell.binds]
                /\ IF calls
                   THEN \E c \in get_handful(left) :
                            value' = [value EXCEPT ![s] =
                                [v \in SharedVariables |->
                                    IF v \in cell.binds THEN c ELSE @[v]]]
                   ELSE UNCHANGED value
                /\ UNCHANGED <<stepState, stepError>>
    /\ UNCHANGED <<candies, saved, store, startLog>>

\* run_code runs the next statement of the data-saving block: the
\* out_variable of a save statement not run yet is saved to the marshal
\* volume, whatever the volume holds under that name (in the order of the
\* compiler's list; any order is allowed).  After the last save run_code
\* returns.
SaveVariable(s) ==
    /\ stepState[s] = "running"
    /\ stepPhase[s] = "saving"
    /\ \E v \in OutVariables(s) \ blockDone[s] :
           /\ saved' = saved \cup { v }
           /\ store' = [store EXCEPT ![v] = value[s][v]]
           /\ IF OutVariables(s) \subseteq blockDone[s] \cup { v }
              THEN /\ stepPhase' = [stepPhase EXCEPT ![s] = "closing"]
                   /\ blockDone' = [blockDone EXCEPT ![s] = {}]
              ELSE /\ blockDone' = [blockDone EXCEPT ![s] = @ \cup { v }]
                   /\ UNCHANGED stepPhase
    /\ UNCHANGED <<candies, stepState, stepPos, stepError, defined, value,
                   startLog>>

\* The function's calls after run_code return (the html artifact is written,
\* update_uimetadata, with autosnapshot the before=False snapshot,
\* mark_execution_complete) and the step succeeds.
FinishStep(s) ==
    /\ stepState[s] = "running"
    /\ stepPhase[s] = "closing"
    /\ stepState' = [stepState EXCEPT ![s] = "succeeded"]
    /\ UNCHANGED <<candies, stepPhase, stepPos, blockDone, stepError, defined, value,
                   saved, store, startLog>>

\* A call of the function raises, or the step's container is killed: the
\* step ends without success wherever it is.
FailStep(s) ==
    /\ stepState[s] = "running"
    /\ stepState' = [stepState EXCEPT ![s] = "failed"]
    /\ stepError' = [stepError EXCEPT ![s] = "killed"]
    /\ UNCHANGED <<candies, stepPhase, stepPos, blockDone, defined, value, saved, store,
                   startLog>>

\* ----------------------------------------- the GP regression example notebook
\* The statements of the training cell before its loop (lines 219-233), of
\* the loop body (lines 237-248) and of the prediction cell (lines 281-288),
\* in source order.
TrainingSetup ==
    << "smoke_test", "training_iter", "model_train", "likelihood_train",
       "optimizer", "mll" >>

\* The loop body with optimizer.step() written before loss.backward()
LoopBody_StepBeforeBackward ==
    << "zero_grad", "forward", "loss", "step", "backward", "print" >>

LoopBody == << "zero_grad", "forward", "loss", "backward", "print", "step" >>

\* The prediction cell with the two eval() calls after the prediction
PredictionCell_EvalAfter == << "test_x", "predict", "model_eval", "likelihood_eval" >>

PredictionCell == << "model_eval", "likelihood_eval", "test_x", "predict" >>

Labels(stmts) == { stmts[n] : n \in 1..Len(stmts) }

\* The statement after p in stmts, or `after` when p is the last one.
NextIn(stmts, p, after) ==
    LET at == CHOOSE n \in 1..Len(stmts) : stmts[n] = p
    IN  IF at = Len(stmts) THEN after ELSE stmts[at + 1]

\* Sequential control flow: the statement that runs after statement p.  The
\* last statement of the loop body returns to the for statement; the cell
\* after the training cell is the prediction cell.
Following(p) ==
    IF p \in Labels(TrainingSetup) THEN NextIn(TrainingSetup, p, "for")
    ELSE IF p \in Labels(LoopBody) THEN NextIn(LoopBody, p, "for")
    ELSE NextIn(PredictionCell, p, "done")

\* range(training_iter) with its upper end included
InRange_Inclusive(n, stop) == 0 <= n /\ n <= stop

\* n in range(stop)
InRange(n, stop) == 0 <= n /\ n < stop

\* The notebook after its first three code cells: likelihood and model are
\* constructed (a torch module starts in training mode), nothing of the
\* training cell has run.
InitGPWith(ci) ==
    /\ gpPc = Head(TrainingSetup)
    /\ ciPresent = ci
    /\ smoke_test = FALSE
    /\ training_iter = 0
    /\ iter = -1
    /\ printed = <<>>
    /\ ops = <<>>
    /\ grads = "unset"
    /\ optimizerSteps = 0
    /\ modelMode = "train"
    /\ likelihoodMode = "train"

\* Statement p runs and control moves to the statement after it.
Advance(p) == gpPc = p /\ gpPc' = Following(p)

\* Statement p of the loop body runs.
AdvanceInLoop(p) == Advance(p) /\ ops' = Append(ops, p)

\* smoke_test = ('CI' in os.environ)
SmokeTest ==
    /\ Advance("smoke_test")
    /\ smoke_test' = ciPresent
    /\ UNCHANGED <<ciPresent, training_iter, iter, printed, ops, grads,
                   optimizerSteps, modelMode, likelihoodMode>>

\* training_iter = 2 if smoke_test else 50
TrainingIter ==
    /\ Advance("training_iter")
    /\ training_iter' = IF smoke_test THEN 2 ELSE 50
    /\ UNCHANGED <<ciPresent, smoke_test, iter, printed, ops, grads,
                   optimizerSteps, modelMode, likelihoodMode>>

\* model.train(): the likelihood is a submodule of the model (it is handed
\* to ExactGP's constructor, model.parameters() includes its parameters and
\* it is read as model.likelihood), and train() sets the mode of the module
\* and of its submodules.
ModelTrain ==
    /\ Advance("model_train")
    /\ modelMode' = "train"
    /\ likelihoodMode' = "train"
    /\ UNCHANGED <<ciPresent, smoke_test, training_iter, iter, printed, ops,
                   grads, optimizerSteps>>

\* likelihood.train()
LikelihoodTrain ==
    /\ Advance("likelihood_train")
    /\ likelihoodMode' = "train"
    /\ UNCHANGED <<ciPresent, smoke_test, training_iter, iter, printed, ops,
                   grads, optimizerSteps, modelMode>>

\* optimizer = torch.optim.Adam(...)
MakeOptimizer ==
    /\ Advance("optimizer")
    /\ optimizerSteps' = 0
    /\ UNCHANGED <<ciPresent, smoke_test, training_iter, iter, printed, ops,
                   grads, modelMode, likelihoodMode>>

\* mll = gpytorch.mlls.ExactMarginalLogLikelihood(likelihood, model)
MakeMll ==
    /\ Advance("mll")
    /\ UNCHANGED <<ciPresent, smoke_test, training_iter, iter, printed, ops,
                   grads, optimizerSteps, modelMode, likelihoodMode>>

\* for i in range(training_iter): the next value is bound and the body
\* entered, or the range is exhausted and the cell ends.
ForNext ==
    /\ gpPc = "for"
    /\ IF InRange(iter + 1, training_iter)
       THEN /\ iter' = iter + 1
            /\ ops' = <<>>
            /\ gpPc' = Head(LoopBody)
       ELSE /\ gpPc' = Head(PredictionCell)
            /\ UNCHANGED <<iter, ops>>
    /\ UNCHANGED <<ciPresent, smoke_test, training_iter, printed, grads,
                   optimizerSteps, modelMode, likelihoodMode>>

\* optimizer.zero_grad()
ZeroGrad ==
    /\ AdvanceInLoop("zero_grad")
    /\ grads' = "zero"
    /\ UNCHANGED <<ciPresent, smoke_test, training_iter, iter, printed,
                   optimizerSteps, modelMode, likelihoodMode>>

\* output = model(train_x)
Forward ==
    /\ AdvanceInLoop("forward")
    /\ UNCHANGED <<ciPresent, smoke_test, training_iter, iter, printed, grads,
                   optimizerSteps, modelMode, likelihoodMode>>

\* loss = -mll(output, train_y)
Loss ==
    /\ AdvanceInLoop("loss")
    /\ UNCHANGED <<ciPresent, smoke_test, training_iter, iter, printed, grads,
                   optimizerSteps, modelMode, likelihoodMode>>

\* loss.backward(): gradients are added to those already there.
Backward ==
    /\ AdvanceInLoop("backward")
    /\ grads' = IF grads = "zero" THEN "filled" ELSE "accumulated"
    /\ UNCHANGED <<ciPresent, smoke_test, training_iter, iter, printed,
                   optimizerSteps, modelMode, likelihoodMode>>

\* print('Iter %d/%d ...' % (i + 1, training_iter, ...))
PrintIter ==
    /\ AdvanceInLoop("print")
    /\ printed' = Append(printed, iter + 1)
    /\ UNCHANGED <<ciPresent, smoke_test, training_iter, iter, grads,
                   optimizerSteps, modelMode, likelihoodMode>>

\* optimizer.step()
OptimizerStep ==
    /\ AdvanceInLoop("step")
    /\ optimizerSteps' = optimizerSteps + 1
    /\ UNCHANGED <<ciPresent, smoke_test, training_iter, iter, printed, grads,
                   modelMode, likelihoodMode>>

\* model.eval(): as train(), for the module and its submodules.
ModelEval ==
    /\ Advance("model_eval")
    /\ modelMode' = "eval"
    /\ likelihoodMode' = "eval"
    /\ UNCHANGED <<ciPresent, smoke_test, training_iter, iter, printed, ops,
                   grads, optimizerSteps>>

\* likelihood.eval()
LikelihoodEval ==
    /\ Advance("likelihood_eval")
    /\ likelihoodMode' = "eval"
    /\ UNCHANGED <<ciPresent, smoke_test, training_iter, iter, printed, ops,
                   grads, optimizerSteps, modelMode>>

\* test_x = torch.linspace(0, 1, 51)
TestX ==
    /\ Advance("test_x")
    /\ UNCHANGED <<ciPresent, smoke_test, training_iter, iter, printed, ops,
                   grads, optimizerSteps, modelMode, likelihoodMode>>

\* observed_pred = likelihood(model(test_x))
Predict ==
    /\ Advance("predict")
    /\ UNCHANGED <<ciPresent, smoke_test, training_iter, iter, printed, ops,
                   grads, optimizerSteps, modelMode, likelihoodMode>>

\* ---------------------------------------------- the luminol example notebook
\* The time windows (start, end) an anomaly of ts1 may have; ts1 and ts2 have
\* the timestamps 0..8.
Windows == { <<0, 1>>, <<2, 5>>, <<6, 8>> }

\* if my_correlator.is_correlated(...) with the test dropped
ShouldPrint_Always(result) == TRUE

\* if my_correlator.is_correlated(threshold=0.8): the truth of what the call
\* returned
ShouldPrint(result) == result

\* "ts2 correlate with ts1 at time period (%d, %d)" % time_period
Message(period) ==
    "ts2 correlate with ts1 at time period (" \o ToString(period[1])
    \o ", " \o ToString(period[2]) \o ")"

\* The cell after my_detector is built and scored.
InitLuminol ==
    /\ lumPc = "get_anomalies"
    /\ anomalies = <<>>
    /\ anomalyIndex = 0
    /\ time_period = <<>>
    /\ correlators = <<>>
    /\ results = <<>>
    /\ stdout = <<>>

\* anomalies = my_detector.get_anomalies(): the list the detector returns
GetAnomalies ==
    /\ lumPc = "get_anomalies"
    /\ anomalies' \in SeqsUpTo(Windows, MaxAnomalies)
    /\ lumPc' = "for"
    /\ UNCHANGED <<anomalyIndex, time_period, correlators, results, stdout>>

\* for a in anomalies: the next anomaly is bound, or the list is exhausted
ForAnomaly ==
    /\ lumPc = "for"
    /\ IF anomalyIndex < Len(anomalies)
       THEN /\ anomalyIndex' = anomalyIndex + 1
            /\ lumPc' = "get_time_window"
       ELSE /\ lumPc' = "done"
            /\ UNCHANGED anomalyIndex
    /\ UNCHANGED <<anomalies, time_period, correlators, results, stdout>>

\* time_period = a.get_time_window()
GetTimeWindow ==
    /\ lumPc = "get_time_window"
    /\ time_period' = anomalies[anomalyIndex]
    /\ lumPc' = "Correlator"
    /\ UNCHANGED <<anomalies, anomalyIndex, correlators, results, stdout>>

\* my_correlator = Correlator(ts1, ts2, time_period)
BuildCorrelator ==
    /\ lumPc = "Correlator"
    /\ correlators' = Append(correlators, time_period)
    /\ lumPc' = "is_correlated"
    /\ UNCHANGED <<anomalies, anomalyIndex, time_period, results, stdout>>

\* if my_correlator.is_correlated(threshold=0.8): the library's answer for
\* the window of the correlator
IsCorrelated ==
    /\ lumPc = "is_correlated"
    /\ \E result \in BOOLEAN :
           /\ results' = Append(results, result)
           /\ lumPc' = IF ShouldPrint(result) THEN "print" ELSE "for"
    /\ UNCHANGED <<anomalies, anomalyIndex, time_period, correlators, stdout>>

\* print("ts2 correlate with ts1 at time period (%d, %d)" % time_period)
PrintMessage ==
    /\ lumPc = "print"
    /\ stdout' = Append(stdout, Message(time_period))
    /\ lumPc' = "for"
    /\ UNCHANGED <<anomalies, anomalyIndex, time_period, correlators, results>>

\* ------------------------------------------------------------ state machine
\* The step's context before the template is rendered.
IdleTemplate ==
    /\ ctx = [ step_name        |-> "sack",
               parameters_names |-> << "CANDIES" >>,
               parameters_types |-> << "int" >>,
               autosnapshot     |-> FALSE,
               in_variables     |-> <<>>,
               out_variables    |-> <<>>,
               function_body    |-> <<>>,
               pipeline_name    |-> "candybag",
               nb_path          |-> "/home/jovyan/candies.ipynb",
               marshal_path     |-> "/marshal" ]
    /\ out = <<>>
    /\ pc = "ready"

Init ==
    /\ ctx \in Contexts
    /\ out = <<>>
    /\ pc = "ready"
    /\ candies = 0
    /\ InitNotebook
    /\ InitGPWith(FALSE)
    /\ InitLuminol

\* template.render(**ctx)
Render ==
    /\ pc = "ready"
    /\ out' = RenderTemplate(ctx)
    /\ pc' = "rendered"
    /\ UNCHANGED ctx
    /\ UNCHANGED <<notebookVars, gpVars, lumVars>>

Next == Render

Spec == Init /\ [][Next]_vars

\* A run of the notebook's pipeline with the parameter CANDIES: the value of
\* the notebook's own cell, or one given when the run is created.
InitPipeline ==
    /\ IdleTemplate
    /\ candies \in (0..MaxCandies) \cup { CANDIES }
    /\ InitNotebook
    /\ InitGPWith(FALSE)
    /\ InitLuminol

NextPipeline ==
    \E s \in Steps :
        \/ StartStep(s) /\ UNCHANGED <<templateVars, gpVars, lumVars>>
        \/ InitStep(s) /\ UNCHANGED <<templateVars, gpVars, lumVars>>
        \/ RunParametersBlock(s) /\ UNCHANGED <<templateVars, gpVars, lumVars>>
        \/ LoadVariable(s) /\ UNCHANGED <<templateVars, gpVars, lumVars>>
        \/ RunCell(s) /\ UNCHANGED <<templateVars, gpVars, lumVars>>
        \/ SaveVariable(s) /\ UNCHANGED <<templateVars, gpVars, lumVars>>
        \/ FinishStep(s) /\ UNCHANGED <<templateVars, gpVars, lumVars>>
        \/ FailStep(s) /\ UNCHANGED <<templateVars, gpVars, lumVars>>

SpecPipeline == InitPipeline /\ [][NextPipeline]_vars

\* A run of the GP regression notebook from its training cell on, with or
\* without CI in the environment.
InitGP ==
    /\ IdleTemplate
    /\ candies = 0
    /\ InitNotebook
    /\ \E ci \in BOOLEAN : InitGPWith(ci)
    /\ InitLuminol

NextGP ==
    \/ SmokeTest /\ UNCHANGED <<templateVars, notebookVars, lumVars>>
    \/ TrainingIter /\ UNCHANGED <<templateVars, notebookVars, lumVars>>
    \/ ModelTrain /\ UNCHANGED <<templateVars, notebookVars, lumVars>>
    \/ LikelihoodTrain /\ UNCHANGED <<templateVars, notebookVars, lumVars>>
    \/ MakeOptimizer /\ UNCHANGED <<templateVars, notebookVars, lumVars>>
    \/ MakeMll /\ UNCHANGED <<templateVars, notebookVars, lumVars>>
    \/ ForNext /\ UNCHANGED <<templateVars, notebookVars, lumVars>>
    \/ ZeroGrad /\ UNCHANGED <<templateVars, notebookVars, lumVars>>
    \/ Forward /\ UNCHANGED <<templateVars, notebookVars, lumVars>>
    \/ Loss /\ UNCHANGED <<templateVars, notebookVars, lumVars>>
    \/ Backward /\ UNCHANGED <<templateVars, notebookVars, lumVars>>
    \/ PrintIter /\ UNCHANGED <<templateVars, notebookVars, lumVars>>
    \/ OptimizerStep /\ UNCHANGED <<templateVars, notebookVars, lumVars>>
    \/ ModelEval /\ UNCHANGED <<templateVars, notebookVars, lumVars>>
    \/ LikelihoodEval /\ UNCHANGED <<templateVars, notebookVars, lumVars>>
    \/ TestX /\ UNCHANGED <<templateVars, notebookVars, lumVars>>
    \/ Predict /\ UNCHANGED <<templateVars, notebookVars, lumVars>>

\* The interpreter runs the statements one after another without pausing.
SpecGP == InitGP /\ [][NextGP]_vars /\ WF_vars(NextGP)

\* A run of the correlation cell of the luminol notebook.
InitLuminolRun ==
    /\ IdleTemplate
    /\ candies = 0
    /\ InitNotebook
    /\ InitGPWith(FALSE)
    /\ InitLuminol

NextLuminol ==
    \/ GetAnomalies /\ UNCHANGED <<templateVars, notebookVars, gpVars>>
    \/ ForAnomaly /\ UNCHANGED <<templateVars, notebookVars, gpVars>>
    \/ GetTimeWindow /\ UNCHANGED <<templateVars, notebookVars, gpVars>>
    \/ BuildCorrelator /\ UNCHANGED <<templateVars, notebookVars, gpVars>>
    \/ IsCorrelated /\ UNCHANGED <<templateVars, notebookVars, gpVars>>
    \/ PrintMessage /\ UNCHANGED <<templateVars, notebookVars, gpVars>>

SpecLuminol == InitLuminolRun /\ [][NextLuminol]_vars

\* ------------------------------------------------- reading the rendered text
Contains(s, p) ==
    \E i \in 1..(Len(s) - Len(p) + 1) : SubSeq(s, i, i + Len(p) - 1) = p

Min(S) == CHOOSE i \in S : \A j \in S : i <= j
Max(S) == CHOOSE i \in S : \A j \in S : i >= j

\* The positions of the lines equal to l, and of those starting with p.
Positions(lines, l) == { i \in 1..Len(lines) : lines[i] = l }

PositionsOfPrefix(lines, p) == { i \in 1..Len(lines) : StartsWith(lines[i], p) }

\* The lines that close a ''' string literal, and those that open one.
LiteralClosers(lines) == PositionsOfPrefix(lines, "    '''")

LiteralOpenersAll(lines) ==
    { i \in 1..Len(lines) : EndsWith(lines[i], "'''") } \ LiteralClosers(lines)

IsKept(pair) == pair[2]

\* The lines of the generated function that are Python code of the function
\* itself: blank lines dropped, and the contents of the ''' ... ''' string
\* literals dropped (the line opening a literal and the line closing it
\* belong to the assignment statement and are kept).
Statements(lines) ==
    LET opens == LiteralOpenersAll(lines)
        closes == LiteralClosers(lines)
        inLiteral(i) ==
            \E o \in opens : o < i /\ \A c \in closes : ~(o < c /\ c <= i)
        marked == [i \in 1..Len(lines) |->
                      << lines[i], lines[i] # "" /\ ~inLiteral(i) >>]
        kept == SelectSeq(marked, IsKept)
    IN  [k \in 1..Len(kept) |-> kept[k][1]]

\* The contents of the string literal assigned to `name`: the lines between
\* "    name = '''" and the next line starting with "    '''"; <<>> when the
\* function assigns no such literal.
LiteralOpeners(lines, name) == Positions(lines, "    " \o name \o " = '''")

LiteralEnd(lines, name) ==
    Min({ c \in LiteralClosers(lines) : c > Min(LiteralOpeners(lines, name)) })

LiteralBody(lines, name) ==
    IF LiteralOpeners(lines, name) = {} THEN <<>>
    ELSE SubSeq(lines, Min(LiteralOpeners(lines, name)) + 1,
                LiteralEnd(lines, name) - 1)

\* The line that closes the literal assigned to `name`.
LiteralCloser(lines, name) == lines[LiteralEnd(lines, name)]

\* The words of a string: its maximal runs of characters other than the
\* separators.
Separators == { " ", ",", "(", ")", ":" }

Words(s) ==
    LET n == Len(s)
        seps == { i \in 1..n : SubSeq(s, i, i) \in Separators }
        starts == { i \in (1..n) \ seps : i = 1 \/ (i - 1) \in seps }
        endOf(i) == IF \E j \in seps : j > i
                    THEN Min({ j \in seps : j > i }) - 1 ELSE n
        nth(k) == CHOOSE i \in starts : Cardinality({ j \in starts : j <= i }) = k
    IN  [k \in 1..Cardinality(starts) |-> SubSeq(s, nth(k), endOf(nth(k)))]

\* How many times the character ch occurs in s from position i on.
CountChar(s, ch, i) == Cardinality({ j \in i..Len(s) : SubSeq(s, j, j) = ch })

\* ------------------------------------------------------------------ claims
\* The dependencies C1 reads off the notebook's tags.
ClaimedPrev ==
    [s \in { "sack", "kid1", "kid2", "kid3" } |->
        IF s = "kid1" THEN { "sack" }
        ELSE IF s = "kid2" THEN { "kid1" }
        ELSE IF s = "kid3" THEN { "kid2" }
        ELSE {}]

IsPrefix(a, b) == Len(a) <= Len(b) /\ a = SubSeq(b, 1, Len(a))

\* C1: a step has started only if the step named in its prev: tag has
\* completed successfully; the steps start in the order sack, kid1, kid2,
\* kid3 and no two of them run at the same time.
C1_PrevOrder ==
    /\ Steps = DOMAIN ClaimedPrev
    /\ \A s \in Steps :
           stepState[s] # "pending" =>
               \A p \in ClaimedPrev[s] : stepState[p] = "succeeded"
    /\ IsPrefix(startLog, << "sack", "kid1", "kid2", "kid3" >>)
    /\ Cardinality({ s \in Steps : stepState[s] = "running" }) <= 1

C1_Witness ==
    /\ startLog = << "sack", "kid1", "kid2", "kid3" >>
    /\ stepState["kid3"] = "running"
    /\ stepState["kid2"] = "succeeded"

\* C6: the code of every step (sack, kid1, kid2, kid3) is the imports cell,
\* then the functions cell, then the cells tagged with the step's block
\* name; random and get_handful are defined in the step's kernel whenever
\* the step's own code runs, and no step ends with a NameError.
C6_ImportsAndFunctionsPrepended ==
    /\ Steps = { "sack", "kid1", "kid2", "kid3" }
    /\ \A s \in Steps :
           /\ Len(StepCode(s)) >= 3
           /\ StepCode(s)[1].tags = << "imports" >>
           /\ StepCode(s)[2].tags = << "functions" >>
           /\ \A i \in 3..Len(StepCode(s)) : HasTag(StepCode(s)[i], "block:" \o s)
           /\ (stepState[s] = "running" /\ stepPos[s] >= 3) =>
                  { "random", "get_handful" } \subseteq defined[s]
           /\ stepError[s] # "NameError"

C6_Witness ==
    /\ stepState["kid2"] = "running"
    /\ stepPos["kid2"] = 4
    /\ value["kid2"]["kid2"] > 0
    /\ { "random", "get_handful" } \subseteq defined["kid2"]
\* The statement that calls run_code, and whether the function has it.
RunCodeCall == "    _kale_html_artifact = _kale_run_code(_kale_blocks)"

RECURSIVE WordsOfLines(_)
WordsOfLines(lines) ==
    IF lines = <<>> THEN <<>> ELSE Words(Head(lines)) \o WordsOfLines(Tail(lines))

\* The names listed in the tuple assigned to _kale_blocks, in the order in
\* which run_code receives them; st is Statements of the rendered text.
KaleBlocksListed(st) ==
    LET at == PositionsOfPrefix(st, "    _kale_blocks = (")
        rc == Positions(st, RunCodeCall)
    IN  IF at = {} \/ rc = {} THEN <<>>
        ELSE LET ws == WordsOfLines(SubSeq(st, Min(at), Min(rc) - 1))
             IN  SubSeq(ws, 3, Len(ws))

\* The order C2 states, from the template inputs.
BlocksInClaimedOrder(c) ==
    (IF Len(c.parameters_names) > 0
     THEN << "_kale_pipeline_parameters_block" >> ELSE <<>>)
    \o (IF Len(c.in_variables) > 0 THEN << "_kale_data_loading_block" >> ELSE <<>>)
    \o [i \in 1..Len(c.function_body) |-> "_kale_block" \o ToString(i)]
    \o (IF Len(c.out_variables) > 0 THEN << "_kale_data_saving_block" >> ELSE <<>>)

\* C2: whenever the run section is emitted, _kale_blocks lists the
\* pipeline-parameters block (if there are parameters), the data-loading
\* block (if there are in_variables), _kale_block1 .. _kale_blockN in index
\* order with N = Len(function_body), and the data-saving block (if there are
\* out_variables), in this order; each listed name is assigned a literal
\* before the tuple is built.
C2_KaleBlocksOrder ==
    pc = "rendered" =>
        LET st == Statements(out)
            listed == KaleBlocksListed(st)
            tuple == PositionsOfPrefix(st, "    _kale_blocks = (")
        IN  Positions(st, RunCodeCall) # {} =>
                /\ listed = BlocksInClaimedOrder(ctx)
                /\ \A i \in 1..Len(listed) :
                       LET opens == LiteralOpeners(st, listed[i])
                       IN  opens # {} /\ Max(opens) < Min(tuple)

C2_Witness ==
    /\ pc = "rendered"
    /\ KaleBlocksListed(Statements(out)) =
           << "_kale_pipeline_parameters_block", "_kale_data_loading_block",
              "_kale_block1", "_kale_block2", "_kale_data_saving_block" >>

InitMetadataCall == "    _kale_mlmdutils.init_metadata()"

MarkCompleteCall == "    _kale_mlmdutils.call(\"mark_execution_complete\")"

SnapshotCallBefore == "    _kale_podutils.snapshot_pipeline_step("

SnapshotCallAfter == "    _rok_snapshot_task = _kale_podutils.snapshot_pipeline_step("

SubmitArtifactCall ==
    "    _kale_mlmdutils.call(\"submit_output_rok_artifact\", _rok_snapshot_task)"

\* A statement that calls the snapshot utility, run_code or _kale_mlmdutils.call.
IsUtilityCall(l) ==
    \/ StartsWith(l, "    _kale_mlmdutils.call(")
    \/ l = RunCodeCall
    \/ l = SnapshotCallBefore
    \/ l = SnapshotCallAfter

\* C3: the generated function calls init_metadata() if and only if it calls
\* call("mark_execution_complete"), both exactly when autosnapshot is true or
\* in_variables, out_variables or function_body is non-empty; init_metadata
\* comes before every snapshot, run_code and mlmd call, and
\* mark_execution_complete is the last statement of the function.
C3_MetadataBracket ==
    pc = "rendered" =>
        LET st == Statements(out)
            inits == Positions(st, InitMetadataCall)
            marks == Positions(st, MarkCompleteCall)
            used == \/ ctx.autosnapshot
                    \/ ctx.in_variables # <<>>
                    \/ ctx.out_variables # <<>>
                    \/ ctx.function_body # <<>>
        IN  /\ (inits # {}) <=> (marks # {})
            /\ (inits # {}) <=> used
            /\ Cardinality(inits) <= 1
            /\ inits # {} =>
                   \A i \in 1..Len(st) : IsUtilityCall(st[i]) => Max(inits) < i
            /\ marks # {} => marks = { Len(st) }

C3_Witness ==
    /\ pc = "rendered"
    /\ ctx.autosnapshot
    /\ ctx.function_body # <<>>
    /\ Positions(Statements(out), InitMetadataCall) # {}
    /\ Positions(Statements(out), MarkCompleteCall) # {}
    /\ Positions(Statements(out), RunCodeCall) # {}

\* C4: with autosnapshot and a step other than final_auto_snapshot the
\* before=True snapshot is called before run_code and the before=False
\* snapshot after it; for final_auto_snapshot only the before=False snapshot
\* is emitted; in both cases submit_output_rok_artifact follows the
\* before=False snapshot immediately and is given the task it returned;
\* without autosnapshot the function has no snapshot_pipeline_step,
\* link_input_rok_artifacts or submit_output_rok_artifact call.
C4_SnapshotProtocol ==
    pc = "rendered" =>
        LET st == Statements(out)
            befTrue == Positions(st, "        before=True)")
            befFalse == Positions(st, "        before=False)")
            run == Positions(st, RunCodeCall)
        IN  /\ (ctx.autosnapshot /\ ctx.step_name # "final_auto_snapshot") =>
                   /\ Cardinality(befTrue) = 1
                   /\ st[Min(befTrue) - 4] = SnapshotCallBefore
                   /\ Cardinality(befFalse) = 1
                   /\ Min(befTrue) < Min(befFalse) - 4
                   /\ \A r \in run : Min(befTrue) < r /\ r < Min(befFalse) - 4
            /\ (ctx.autosnapshot /\ ctx.step_name = "final_auto_snapshot") =>
                   /\ befTrue = {}
                   /\ Positions(st, SnapshotCallBefore) = {}
                   /\ Cardinality(befFalse) = 1
            /\ ctx.autosnapshot =>
                   /\ st[Min(befFalse) - 4] = SnapshotCallAfter
                   /\ Positions(st, SubmitArtifactCall) = { Min(befFalse) + 1 }
            /\ ~ctx.autosnapshot =>
                   \A i \in 1..Len(st) :
                       /\ ~Contains(st[i], "snapshot_pipeline_step")
                       /\ ~Contains(st[i], "link_input_rok_artifacts")
                       /\ ~Contains(st[i], "submit_output_rok_artifact")

C4_Witness ==
    /\ pc = "rendered"
    /\ ctx.autosnapshot
    /\ ctx.step_name # "final_auto_snapshot"
    /\ Positions(Statements(out), RunCodeCall) # {}
    /\ Positions(Statements(out), "        before=True)") # {}
    /\ Positions(Statements(out), SubmitArtifactCall) # {}

IsLoad(l) == Contains(l, "_kale_marshal_utils.load(")

IsSave(l) == Contains(l, "_kale_marshal_utils.save(")

\* C5: the data-loading block is emitted iff in_variables is non-empty and
\* the data-saving block iff out_variables is non-empty; each block sets the
\* data directory to marshal_path before its first load or save; the loading
\* block has exactly one `v = load("v")` per in_variable, in list order, and
\* the saving block exactly one `save(v, "v")` per out_variable, in list
\* order.
C5_MarshalBlocks ==
    pc = "rendered" =>
        LET loadBody == LiteralBody(out, "_kale_data_loading_block")
            saveBody == LiteralBody(out, "_kale_data_saving_block")
            setDir == "    _kale_marshal_utils.set_kale_data_directory(\""
                      \o ctx.marshal_path \o "\")"
        IN  /\ Cardinality(LiteralOpeners(out, "_kale_data_loading_block"))
                   = IF ctx.in_variables # <<>> THEN 1 ELSE 0
            /\ Cardinality(LiteralOpeners(out, "_kale_data_saving_block"))
                   = IF ctx.out_variables # <<>> THEN 1 ELSE 0
            /\ SelectSeq(loadBody, IsLoad) =
                   [i \in 1..Len(ctx.in_variables) |->
                       "    " \o ctx.in_variables[i] \o " = _kale_marshal_utils.load(\""
                       \o ctx.in_variables[i] \o "\")"]
            /\ SelectSeq(saveBody, IsSave) =
                   [i \in 1..Len(ctx.out_variables) |->
                       "    _kale_marshal_utils.save(" \o ctx.out_variables[i]
                       \o ", \"" \o ctx.out_variables[i] \o "\")"]
            /\ ctx.in_variables # <<>> =>
                   /\ Cardinality(Positions(loadBody, setDir)) = 1
                   /\ \A i \in 1..Len(loadBody) :
                          IsLoad(loadBody[i]) => Min(Positions(loadBody, setDir)) < i
            /\ ctx.out_variables # <<>> =>
                   /\ Cardinality(Positions(saveBody, setDir)) = 1
                   /\ \A i \in 1..Len(saveBody) :
                          IsSave(saveBody[i]) => Min(Positions(saveBody, setDir)) < i

C5_Witness ==
    /\ pc = "rendered"
    /\ ctx.in_variables = << "kid2", "kid1" >>
    /\ ctx.out_variables = << "kid1", "kid2" >>
    /\ Len(SelectSeq(LiteralBody(out, "_kale_data_loading_block"), IsLoad)) = 2
    /\ Len(SelectSeq(LiteralBody(out, "_kale_data_saving_block"), IsSave)) = 2

\* C7: without autosnapshot, in_variables, out_variables and function_body
\* the body of the generated function is the single statement `pass`,
\* whatever the parameters; in every other case the function has no `pass`
\* statement.
C7_PassOnlyWhenEmpty ==
    pc = "rendered" =>
        LET st == Statements(out)
        IN  IF /\ ~ctx.autosnapshot
               /\ ctx.in_variables = <<>>
               /\ ctx.out_variables = <<>>
               /\ ctx.function_body = <<>>
            THEN /\ Len(st) = 2
                 /\ StartsWith(st[1], "def ")
                 /\ st[2] = "    pass"
            ELSE \A i \in 1..Len(st) : Words(st[i]) # << "pass" >>

C7_Witness ==
    /\ pc = "rendered"
    /\ ~ctx.autosnapshot
    /\ ctx.in_variables = <<>>
    /\ ctx.out_variables = <<>>
    /\ ctx.function_body = <<>>
    /\ Len(ctx.parameters_names) = 2
    /\ Statements(out)[2] = "    pass"

RECURSIVE CountCharInLines(_, _)
CountCharInLines(lines, ch) ==
    IF lines = <<>> THEN 0
    ELSE CountChar(Head(lines), ch, 1) + CountCharInLines(Tail(lines), ch)

\* C8: when there are parameters and the run section is emitted, the
\* pipeline-parameters block has exactly one assignment per parameter, in
\* list order, written `name = "{}"` for a parameter of type str and
\* `name = {}` otherwise, and .format(...) is given the parameter names in
\* the same order: as many placeholders as format arguments.
C8_ParametersBlock ==
    pc = "rendered" =>
        LET st == Statements(out)
            n == Len(ctx.parameters_names)
            body == LiteralBody(out, "_kale_pipeline_parameters_block")
        IN  (n > 0 /\ Positions(st, RunCodeCall) # {}) =>
                /\ Cardinality(LiteralOpeners(out, "_kale_pipeline_parameters_block")) = 1
                /\ body = [i \in 1..n |->
                              "    " \o ctx.parameters_names[i] \o
                              (IF ctx.parameters_types[i] = "str"
                               THEN " = \"{}\"" ELSE " = {}")]
                /\ StartsWith(LiteralCloser(out, "_kale_pipeline_parameters_block"),
                              "    '''.format(")
                /\ Tail(Words(LiteralCloser(out, "_kale_pipeline_parameters_block")))
                       = ctx.parameters_names
                /\ CountCharInLines(body, "{") = n
                /\ CountCharInLines(body, "}") = n

C8_Witness ==
    /\ pc = "rendered"
    /\ ctx.parameters_types = << "str", "int" >>
    /\ Positions(Statements(out), RunCodeCall) # {}
    /\ Len(LiteralBody(out, "_kale_pipeline_parameters_block")) = 2

\* C9: the signature lists parameters_names in order, the i-th annotated
\* with the i-th element of parameters_types, separated by commas with no
\* comma after the last; without parameters it is `def <step_name>():`.
C9_Signature ==
    pc = "rendered" =>
        LET sig == out[1]
            n == Len(ctx.parameters_names)
        IN  /\ StartsWith(sig, "def " \o ctx.step_name \o "(")
            /\ EndsWith(sig, "):")
            /\ Words(sig) =
                   << "def", ctx.step_name >>
                   \o [k \in 1..(2 * n) |->
                          IF k % 2 = 1 THEN ctx.parameters_names[(k + 1) \div 2]
                          ELSE ctx.parameters_types[k \div 2]]
            /\ CountChar(sig, ",", 1) = (IF n = 0 THEN 0 ELSE n - 1)
            /\ CountChar(sig, ":", 1) = n + 1
            /\ ~Contains(sig, ",)")
            /\ n = 0 => sig = "def " \o ctx.step_name \o "():"

C9_Witness ==
    /\ pc = "rendered"
    /\ Len(ctx.parameters_names) = 2
    /\ out[1] = "def kid1(label: str,CANDIES: int):"

\* C10: the run section (the imports of run_code and update_uimetadata, the
\* _kale_blocks assignment, one call of run_code, the write of its result to
\* "/<step_name>.html", update_uimetadata('<step_name>')) is emitted iff
\* in_variables, out_variables or function_body is non-empty, at most once,
\* and in it run_code precedes the file write, which precedes
\* update_uimetadata.
C10_RunSection ==
    pc = "rendered" =>
        LET st == Statements(out)
            cond == \/ ctx.in_variables # <<>>
                    \/ ctx.out_variables # <<>>
                    \/ ctx.function_body # <<>>
            imp1 == Positions(st, "    from kale.common.jputils import run_code as _kale_run_code")
            imp2 == Positions(st, "        update_uimetadata as _kale_update_uimetadata")
            tup == PositionsOfPrefix(st, "    _kale_blocks = (")
            run == Positions(st, RunCodeCall)
            opn == Positions(st, "    with open(\"/" \o ctx.step_name \o ".html\", \"w\") as f:")
            wrt == Positions(st, "        f.write(_kale_html_artifact)")
            upd == Positions(st, "    _kale_update_uimetadata('" \o ctx.step_name \o "')")
        IN  /\ \A S \in { imp1, imp2, tup, run, opn, wrt, upd } :
                   Cardinality(S) = IF cond THEN 1 ELSE 0
            /\ cond =>
                   /\ Min(imp1) < Min(imp2)
                   /\ Min(imp2) < Min(tup)
                   /\ Min(tup) < Min(run)
                   /\ Min(run) < Min(opn)
                   /\ Min(opn) < Min(wrt)
                   /\ Min(wrt) < Min(upd)

C10_Witness ==
    /\ pc = "rendered"
    /\ ~ctx.autosnapshot
    /\ ctx.in_variables = <<>>
    /\ ctx.function_body = <<>>
    /\ ctx.out_variables # <<>>
    /\ Positions(Statements(out), RunCodeCall) # {}

LinkInputCall == "    _kale_mlmdutils.call(\"link_input_rok_artifacts\")"

ImportPodutils == "    from kale.common import podutils as _kale_podutils"

ImportRunCode == "    from kale.common.jputils import run_code as _kale_run_code"

\* C11: with autosnapshot the generated function calls
\* link_input_rok_artifacts exactly once and imports podutils exactly once:
\* before the run section and before the before=True snapshot when step_name
\* is not final_auto_snapshot, and after the run section, immediately before
\* the before=False snapshot, when it is.
C11_LinkInputOnce ==
    (pc = "rendered" /\ ctx.autosnapshot) =>
        LET st == Statements(out)
            links == Positions(st, LinkInputCall)
            imports == Positions(st, ImportPodutils)
            runSection == { i \in 1..Len(st) :
                              \E a \in Positions(st, ImportRunCode) :
                              \E b \in PositionsOfPrefix(st, "    _kale_update_uimetadata(") :
                                  a <= i /\ i <= b }
        IN  /\ Cardinality(links) = 1
            /\ Cardinality(imports) = 1
            /\ Min(imports) < Min(links)
            /\ IF ctx.step_name # "final_auto_snapshot"
               THEN /\ \A r \in runSection : Min(links) < r
                    /\ \A b \in Positions(st, SnapshotCallBefore) : Min(links) < b
                    /\ Positions(st, SnapshotCallBefore) # {}
               ELSE /\ \A r \in runSection : r < Min(imports)
                    /\ Positions(st, SnapshotCallAfter) = { Min(links) + 1 }

C11_Witness ==
    /\ pc = "rendered"
    /\ ctx.autosnapshot
    /\ ctx.step_name = "final_auto_snapshot"
    /\ Positions(Statements(out), RunCodeCall) # {}
    /\ Positions(Statements(out), LinkInputCall) # {}

AlternativePipelineNames == { "candybag", "titanic" }
AlternativeNotebookPaths == { "/home/jovyan/candies.ipynb", "/tmp/nb.ipynb" }
AlternativeMarshalPaths == { "/marshal", "/data", "/mnt/share" }

\* C17: two renderings that differ only in pipeline_name or nb_path are
\* identical when autosnapshot is false, and two renderings that differ only
\* in marshal_path are identical when in_variables and out_variables are
\* both empty.
C17_UnusedInputsDoNotShow ==
    pc = "rendered" =>
        /\ ~ctx.autosnapshot =>
               \A pn \in AlternativePipelineNames, np \in AlternativeNotebookPaths :
                   RenderTemplate([ctx EXCEPT !.pipeline_name = pn, !.nb_path = np]) = out
        /\ (ctx.in_variables = <<>> /\ ctx.out_variables = <<>>) =>
               \A mp \in AlternativeMarshalPaths :
                   RenderTemplate([ctx EXCEPT !.marshal_path = mp]) = out

C17_Witness ==
    /\ pc = "rendered"
    /\ ~ctx.autosnapshot
    /\ ctx.in_variables = <<>>
    /\ ctx.out_variables = <<>>
    /\ Len(ctx.function_body) = 2
    /\ out = RenderTemplate([ctx EXCEPT !.pipeline_name = "titanic",
                                        !.nb_path = "/tmp/nb.ipynb",
                                        !.marshal_path = "/mnt/share"])

\* The argument `left` of the get_handful call of step s, as its cell writes
\* it: CANDIES less what the kids before it took.
LeftOf(s) ==
    CASE s = "kid1" -> candies
      [] s = "kid2" -> candies - value["kid2"]["kid1"]
      [] s = "kid3" -> candies - value["kid3"]["kid1"] - value["kid3"]["kid2"]

\* C12: get_handful(kidname, left) returns 0 when left is 0 and otherwise an
\* integer c with 1 <= c <= left: for every left >= 0 the result r satisfies
\* 0 <= r <= left, and r = 0 only if left = 0.
C12_HandfulRange ==
    \A s \in { "kid1", "kid2", "kid3" } :
        s \in defined[s] =>
            LET left == LeftOf(s)
                r == value[s][s]
            IN  /\ left >= 0
                /\ left = 0 => r = 0
                /\ left # 0 => (1 <= r /\ r <= left)
                /\ 0 <= r /\ r <= left
                /\ r = 0 => left = 0

C12_Witness ==
    /\ "kid1" \in defined["kid1"]
    /\ candies = CANDIES
    /\ LeftOf("kid1") = CANDIES
    /\ value["kid1"]["kid1"] \in 1..(CANDIES - 1)
    /\ "kid3" \in defined["kid3"]
    /\ LeftOf("kid3") = 0
    /\ value["kid3"]["kid3"] = 0

\* The statements that run after the training loop has ended.
AfterLoop == { "model_eval", "likelihood_eval", "test_x", "predict", "done" }

\* What C13 states of every state of a run.
C13_IterationCount ==
    /\ gpPc \notin { "smoke_test", "training_iter" } =>
           training_iter = IF ciPresent THEN 2 ELSE 50
    /\ printed = [n \in 1..Len(printed) |-> n]
    /\ gpPc \in AfterLoop =>
           /\ printed = [n \in 1..training_iter |-> n]
           /\ optimizerSteps = training_iter
           /\ iter + 1 = training_iter

\* C13: the training loop runs exactly training_iter iterations and then
\* terminates, where training_iter is 2 when CI is in the environment and 50
\* otherwise; the iteration numbers printed are 1, 2, .., training_iter, none
\* skipped or repeated.
C13_TrainingLoopTerminates ==
    /\ [](C13_IterationCount)
    /\ <>(gpPc \in AfterLoop)

C13_Witness ==
    /\ gpPc = "done"
    /\ ~ciPresent
    /\ Len(printed) = 50
    /\ optimizerSteps = 50

\* C14: every iteration runs, in this order and exactly once each,
\* optimizer.zero_grad(), the call of the model and the loss computation,
\* loss.backward() and optimizer.step(); optimizer.step() never runs before
\* the loss.backward() of its iteration, and the gradients are zeroed before
\* every forward pass.
C14_IterationOrder ==
    LET claimed == << "zero_grad", "forward", "loss", "backward", "step" >>
        done == SelectSeq(ops, LAMBDA o : o # "print")
    IN  /\ gpPc \in { "zero_grad", "forward", "loss", "backward", "print", "step" } =>
               /\ Len(done) <= Len(claimed)
               /\ done = SubSeq(claimed, 1, Len(done))
        /\ (gpPc = "for" /\ iter >= 0) => done = claimed
        /\ gpPc \in AfterLoop => (training_iter > 0 => done = claimed)
        /\ gpPc = "step" => grads = "filled"
        /\ gpPc \in { "forward", "loss", "backward" } => grads = "zero"
        /\ optimizerSteps = IF gpPc \in AfterLoop \/ gpPc = "for" THEN iter + 1
                            ELSE IF iter < 0 THEN 0 ELSE iter

C14_Witness ==
    /\ gpPc = "for"
    /\ iter = 1
    /\ ops = << "zero_grad", "forward", "loss", "backward", "print", "step" >>
    /\ optimizerSteps = 2
    /\ grads = "filled"

\* C15: with the cells run top to bottom, model and likelihood are both in
\* train mode at every call of a training iteration and both in eval mode
\* when likelihood(model(test_x)) is computed; they are never in different
\* modes at a point where one of them is called.
C15_Modes ==
    /\ gpPc \in { "forward", "loss" } =>
           modelMode = "train" /\ likelihoodMode = "train"
    /\ gpPc = "predict" =>
           modelMode = "eval" /\ likelihoodMode = "eval"
    /\ gpPc \in { "forward", "loss", "predict" } => modelMode = likelihoodMode

C15_Witness ==
    /\ gpPc = "predict"
    /\ modelMode = "eval"
    /\ likelihoodMode = "eval"
    /\ printed # <<>>
    /\ optimizerSteps = training_iter

\* The positions of the TRUE answers, in increasing order.
Correlated(rs) ==
    LET yes == { n \in 1..Len(rs) : rs[n] }
    IN  [m \in 1..Cardinality(yes) |->
            CHOOSE n \in yes : Cardinality({ o \in yes : o <= n }) = m]

\* C16: for each anomaly exactly one Correlator is built, over that
\* anomaly's own time window; the message "ts2 correlate with ts1 at time
\* period (start, end)" is printed for a window if and only if is_correlated
\* answered true for it: at most one message per anomaly, and none when
\* there are no anomalies.
C16_OneMessagePerCorrelation ==
    LET answered == IF lumPc = "print"
                    THEN SubSeq(results, 1, Len(results) - 1) ELSE results
        yes == Correlated(answered)
    IN  /\ correlators = SubSeq(anomalies, 1, Len(correlators))
        /\ Len(results) <= Len(correlators)
        /\ lumPc = "done" =>
               correlators = anomalies /\ Len(results) = Len(anomalies)
        /\ stdout = [m \in 1..Len(yes) |->
                        "ts2 correlate with ts1 at time period ("
                        \o ToString(anomalies[yes[m]][1]) \o ", "
                        \o ToString(anomalies[yes[m]][2]) \o ")"]
        /\ Len(stdout) <= Len(anomalies)
        /\ anomalies = <<>> => (stdout = <<>> /\ correlators = <<>>)

C16_Witness ==
    /\ lumPc = "done"
    /\ anomalies = << <<2, 5>>, <<6, 8>> >>
    /\ correlators = anomalies
    /\ results = << TRUE, FALSE >>
    /\ stdout = << "ts2 correlate with ts1 at time period (2, 5)" >>

====
